---------------------------- MODULE Spec2Model ----------------------------
(***************************************************************************)
(* A model of the administrative scripts of the help-center chatbot:       *)
(*   - ChatHistory.get_users, the user report (src/chat_history.py)        *)
(*   - the feedback migration methods of ChatHistory                       *)
(*   - the retrying language-model wrappers of OpenAIHelper                *)
(*                                                                         *)
(* Documents of the store are records whose DOMAIN is the set of fields    *)
(* the document has: a missing field is a field outside the DOMAIN.        *)
(* Time is counted in slots of half a day; an instant is a slot number.    *)
(* A formatted timestamp "YYYY-MM-DD HH:MM:SS" is the sequence             *)
(* <<day, slot of the day>> and a formatted date "YYYY-MM-DD" is <<day>>:  *)
(* every field is fixed-width and zero-padded, so the strings compare as   *)
(* these sequences do, the shorter of two strings that agree being smaller.*)
(***************************************************************************)
EXTENDS Integers, Sequences, FiniteSets, TLC

VARIABLES
  chat_history,   \* the chat history collection, in natural order
  users,          \* the users collection
  feedback,       \* the feedback collection
  call,           \* the arguments of the last get_users call (<<>>: none yet)
  report,         \* what the last get_users call produced
  json_file,      \* users.json: <<>> when absent, <<rows>> when present
  xlsx_file,      \* "Users Q4.xlsx": <<>> when absent, <<sheet>> when present
  task,           \* the migration method that runs or ran last, and its cursor
  pending,        \* the writes handed to the store and not yet applied
  llm             \* the OpenAIHelper call that runs or ran last

storeVars == <<chat_history, users, feedback>>
reportVars == <<call, report, json_file, xlsx_file>>
migrationVars == <<task, pending>>
vars == <<chat_history, users, feedback, call, report, json_file, xlsx_file,
          task, pending, llm>>

(* ------------------------------ bounds -------------------------------- *)
MaxChats == 3
MaxDay == 1
MaxFeedback == 3
MaxMigrated == 2

SlotsOfDay == {0, 1}
SlotsPerDay == Cardinality(SlotsOfDay)
Days == 0..MaxDay
Instants == 0..((MaxDay + 1) * SlotsPerDay - 1)
ChatIds == 1..MaxChats

(* ------------------------- sequences helpers -------------------------- *)
RECURSIVE Concat(_)
Concat(ss) == IF ss = <<>> THEN <<>> ELSE Head(ss) \o Concat(Tail(ss))

RECURSIVE SumSeq(_)
SumSeq(s) == IF s = <<>> THEN 0 ELSE Head(s) + SumSeq(Tail(s))

Range(s) == {s[i] : i \in 1..Len(s)}

(* --------------------------- time and zones --------------------------- *)
\* The zone database of the store: the offset of a zone from UTC, in slots
\* (a zone it does not list here is at offset 0, as UTC is).
UtcOffset(zone) ==
  CASE zone = "Europe/Kiev" -> 1
    [] zone = "America/Denver" -> -1
    [] OTHER -> 0

\* The $switch of both $addFields stages: two zone names are replaced.
TimezoneSwitch(tz) ==
  CASE tz = "Europe/Kyiv" -> "Europe/Kiev"
    [] tz = "America/Ciudad_Juarez" -> "America/Denver"
    [] OTHER -> tz

\* $dateToString with format "%Y-%m-%d %H:%M:%S" in a zone.
DateToString(date, zone) ==
  LET local == date + UtcOffset(zone)
  IN  <<local \div SlotsPerDay, local % SlotsPerDay>>

\* $dateToString with format "%Y-%m-%d" and no timezone: the UTC date.
DateToStringDayWithTime(date) == <<date \div SlotsPerDay, date % SlotsPerDay>>
DateToStringDay(date) == <<date \div SlotsPerDay>>

\* Comparison of two strings, as the store compares them: s <= t.
RECURSIVE StrLte(_, _)
StrLte(s, t) ==
  IF s = <<>> THEN TRUE
  ELSE IF t = <<>> THEN FALSE
  ELSE IF Head(s) # Head(t) THEN Head(s) < Head(t)
  ELSE StrLte(Tail(s), Tail(t))

StrGte(s, t) == StrLte(t, s)

\* datetime.strptime(s, "%Y-%m-%d %H:%M:%S").date() and str() of it.
StrptimeDate(s) == s[1]
DateStr(d) == <<d>>
format_datetime(start_date, end_date) ==
  <<DateStr(StrptimeDate(start_date)), DateStr(StrptimeDate(end_date))>>

(* ------------------- the aggregation pipeline of get_users ------------ *)
HasField(doc, f) == f \in DOMAIN doc

\* The equality of $lookup: a missing local field is null, and null matches
\* the foreign documents whose foreign field is missing.
LookupMatches(doc, localField, other, foreignField) ==
  IF HasField(doc, localField)
  THEN HasField(other, foreignField) /\ other[foreignField] = doc[localField]
  ELSE ~HasField(other, foreignField)

\* Stage 1: $addFields created_at_localized.
AddCreatedAtLocalized(docs) ==
  [i \in 1..Len(docs) |->
     docs[i] @@ [created_at_localized |->
                   DateToString(docs[i].created_at, TimezoneSwitch(docs[i].timezone))]]

\* Stage 2: $match created_at_localized between the two formatted dates.
MatchDateRange(docs, start_date_dt, end_date_dt) ==
  SelectSeq(docs, LAMBDA d: /\ StrGte(d.created_at_localized, start_date_dt)
                            /\ StrLte(d.created_at_localized, end_date_dt))

\* Stages 3 and 4: $lookup from users on user_id, then $unwind "$user": one
\* document per matching user, none for a chat record without a user.
LookupUnwindUser(docs) ==
  Concat([i \in 1..Len(docs) |->
    LET found == SelectSeq(users, LAMBDA u: LookupMatches(docs[i], "user_id", u, "user_id"))
    IN  [j \in 1..Len(found) |-> docs[i] @@ [user |-> found[j]]]])

\* Stage 5: $addFields last_active_at_localized.
AddLastActiveAtLocalized(docs) ==
  [i \in 1..Len(docs) |->
     docs[i] @@ [last_active_at_localized |->
                   DateToString(docs[i].user.last_active_at, TimezoneSwitch(docs[i].timezone))]]

\* Stages 6 and 7: $lookup from feedback on feedback_id = _id, then $unwind
\* with preserveNullAndEmptyArrays: a document without a match is kept,
\* without the feedback field.
LookupUnwindFeedbackDropping(docs) ==
  Concat([i \in 1..Len(docs) |->
    LET found == SelectSeq(feedback, LAMBDA f: LookupMatches(docs[i], "feedback_id", f, "_id"))
    IN  [j \in 1..Len(found) |-> docs[i] @@ [feedback |-> found[j]]]])
LookupUnwindFeedback(docs) ==
  Concat([i \in 1..Len(docs) |->
    LET found == SelectSeq(feedback, LAMBDA f: LookupMatches(docs[i], "feedback_id", f, "_id"))
    IN  IF found = <<>> THEN <<docs[i]>>
        ELSE [j \in 1..Len(found) |-> docs[i] @@ [feedback |-> found[j]]]])

\* $sum of "$feedback.<field>": a document without the path adds nothing.
SumFeedback(docs, field) ==
  SumSeq([i \in 1..Len(docs) |->
    IF HasField(docs[i], "feedback") /\ HasField(docs[i].feedback, field)
    THEN docs[i].feedback[field] ELSE 0])

\* The $cond of total_answers_no_citations: 1 for [] and for "", else 0.
NoCitationsCountingAbsent(doc) ==
  IF ~HasField(doc, "citations") \/ doc.citations \in {"[]", "''", "null"}
  THEN 1 ELSE 0
NoCitations(doc) ==
  IF HasField(doc, "citations") /\ (doc.citations = "[]" \/ doc.citations = "''")
  THEN 1 ELSE 0

\* The keys of $group, in the order of their first document.
RECURSIVE GroupKeys(_)
GroupKeys(docs) ==
  IF docs = <<>> THEN <<>>
  ELSE LET k == Head(docs).user.user_id
       IN  <<k>> \o GroupKeys(SelectSeq(Tail(docs), LAMBDA d: d.user.user_id # k))

\* Stage 8: $group by "$user.user_id".
Group(docs) ==
  LET keys == GroupKeys(docs)
  IN  [n \in 1..Len(keys) |->
        LET g == SelectSeq(docs, LAMBDA d: d.user.user_id = keys[n])
        IN  [_id |-> keys[n],
             name |-> g[1].user.name,
             total_questions |-> Len(g),
             total_answers_no_citations |-> SumSeq([i \in 1..Len(g) |-> NoCitations(g[i])]),
             total_thumbs_up |-> SumFeedback(g, "thumbs_up"),
             total_thumbs_down |-> SumFeedback(g, "thumbs_down"),
             DateSet |-> {DateToStringDay(g[i].created_at) : i \in 1..Len(g)},
             created_at |-> g[1].created_at_localized,
             last_active_at |-> g[1].last_active_at_localized,
             timezone |-> g[1].timezone]]

\* Stage 9: $project.
Project(groups) ==
  [n \in 1..Len(groups) |->
     [name |-> groups[n].name,
      total_questions |-> groups[n].total_questions,
      total_answers_no_citations |-> groups[n].total_answers_no_citations,
      total_thumbs_up |-> groups[n].total_thumbs_up,
      total_thumbs_down |-> groups[n].total_thumbs_down,
      timezone |-> groups[n].timezone,
      user_id |-> groups[n]._id,
      total_visits |-> IF Cardinality(groups[n].DateSet) >= 1
                       THEN Cardinality(groups[n].DateSet) ELSE 0]]

\* The order of the keys in a projected document: the included fields in the
\* order of the $group, then the computed ones.
ProjectedKeys ==
  <<"name", "total_questions", "total_answers_no_citations", "total_thumbs_up",
    "total_thumbs_down", "timezone", "user_id", "total_visits">>

\* The documents that reach the $facet stage.
Projected(start_date_dt, end_date_dt) ==
  Project(Group(LookupUnwindFeedback(AddLastActiveAtLocalized(LookupUnwindUser(
    MatchDateRange(AddCreatedAtLocalized(chat_history), start_date_dt, end_date_dt))))))

\* str.lower() on the sort fields a caller passes.
Lower(s) ==
  CASE s = "USER_ID" -> "user_id"
    [] s = "Total_Questions" -> "total_questions"
    [] OTHER -> s

\* $sort on one key: a document without the key sorts as null, so documents
\* that all lack it are equal. The store does not fix the order of documents
\* with equal keys: every sorted arrangement is a possible result.
InSortOrder(a, b, key, direction) ==
  IF HasField(a, key) /\ HasField(b, key)
  THEN IF direction = 1 THEN a[key] <= b[key] ELSE a[key] >= b[key]
  ELSE TRUE

Arrangements(docs) ==
  LET n == Len(docs)
      perms == {p \in [1..n -> 1..n] : \A i, j \in 1..n : i # j => p[i] # p[j]}
  IN  {[i \in 1..n |-> docs[p[i]]] : p \in perms}

SortStage(docs, key, direction) ==
  {s \in Arrangements(docs) :
     \A i \in 1..(Len(s) - 1) : InSortOrder(s[i], s[i + 1], key, direction)}

\* $count: one document holding the number of documents, none for no input.
CountStage(docs) == IF docs = <<>> THEN <<>> ELSE <<[user_id |-> Len(docs)]>>

\* sort_direction = 1 if order_by == "ASC" else -1
SortDirection(order_by) == IF order_by = "ASC" THEN 1 ELSE -1

\* The results aggregate(...).to_list() can give: a list of one $facet
\* document, both of whose facets read the projected documents.
AggregateCountingChatRecords(start_date_dt, end_date_dt, sort_key, sort_direction) ==
  LET docs == Projected(start_date_dt, end_date_dt)
  IN  {<<[paginatedResults |-> sorted,
          totalCount |-> CountStage(LookupUnwindUser(MatchDateRange(
            AddCreatedAtLocalized(chat_history), start_date_dt, end_date_dt)))]>> :
         sorted \in SortStage(docs, sort_key, sort_direction)}
Aggregate(start_date_dt, end_date_dt, sort_key, sort_direction) ==
  LET docs == Projected(start_date_dt, end_date_dt)
  IN  {<<[paginatedResults |-> sorted, totalCount |-> CountStage(docs)]>> :
         sorted \in SortStage(docs, sort_key, sort_direction)}

(* ------------------------ the writers of get_users -------------------- *)
\* dict.keys() of a result document: its keys, in the order of the document.
Keys(doc) == SelectSeq(ProjectedKeys, LAMBDA k : k \in DOMAIN doc)

\* The xlsx branch: the first row holds the keys of the first dict, each
\* following row the values of one dict under these keys (record[key] raises
\* KeyError for a dict without the key); the workbook is saved at the end.
Workbook(rows) ==
  IF Len(rows) < 1 THEN [raised |-> "IndexError", sheet |-> <<>>]
  ELSE LET headers == Keys(rows[1])
       IN  IF \E i \in 1..Len(rows) : \E c \in 1..Len(headers) :
                   headers[c] \notin DOMAIN rows[i]
           THEN [raised |-> "KeyError", sheet |-> <<>>]
           ELSE [raised |-> "",
                 sheet |-> <<headers>> \o
                   [i \in 1..Len(rows) |->
                      [c \in 1..Len(headers) |-> rows[i][headers[c]]]]]

\* get_users from "total_count = users[0]["totalCount"][0]["user_id"]" on.
UnpackAndWrite(aggregated, file_type) ==
  IF Len(aggregated[1].totalCount) < 1
  THEN [outcome |-> "IndexError", rows |-> <<>>, total_count |-> 0,
        json |-> json_file, xlsx |-> xlsx_file]
  ELSE LET total_count == aggregated[1].totalCount[1].user_id
           rows == aggregated[1].paginatedResults
           book == Workbook(rows)
       IN  CASE file_type = "json" ->
                  [outcome |-> "returned", rows |-> rows, total_count |-> total_count,
                   json |-> <<rows>>, xlsx |-> xlsx_file]
             [] file_type = "xlsx" ->
                  IF book.raised # ""
                  THEN [outcome |-> book.raised, rows |-> rows, total_count |-> total_count,
                        json |-> json_file, xlsx |-> xlsx_file]
                  ELSE [outcome |-> "returned", rows |-> rows, total_count |-> total_count,
                        json |-> json_file, xlsx |-> <<book.sheet>>]
             [] OTHER ->
                  [outcome |-> "returned", rows |-> rows, total_count |-> total_count,
                   json |-> json_file, xlsx |-> xlsx_file]

\* get_users after the aggregation: the guard on an empty totalCount returns
\* {"items": [], "total_count": 0} before anything is unpacked or written.
RespondUnguarded(aggregated, file_type) == UnpackAndWrite(aggregated, file_type)
Respond(aggregated, file_type) ==
  IF Len(aggregated[1].totalCount) = 0
  THEN [outcome |-> "returned_empty", rows |-> <<>>, total_count |-> 0,
        json |-> json_file, xlsx |-> xlsx_file]
  ELSE UnpackAndWrite(aggregated, file_type)

\* get_users once the store has answered the aggregation with `aggregated`.
Finish(args, aggregated) ==
  LET r == Respond(aggregated, args.file_type)
  IN  /\ call' = <<args>>
      /\ report' = [outcome |-> r.outcome, rows |-> r.rows, total_count |-> r.total_count]
      /\ json_file' = r.json
      /\ xlsx_file' = r.xlsx
      /\ UNCHANGED <<storeVars, migrationVars, llm>>

\* ChatHistory.get_users(start_date, end_date, sort_by, order_by, file_type)
GetUsers(start_date, end_date, sort_by, order_by, file_type) ==
  LET dts == format_datetime(start_date, end_date)
  IN  \E aggregated \in Aggregate(dts[1], dts[2], Lower(sort_by), SortDirection(order_by)) :
        Finish([start_date |-> start_date, end_date |-> end_date, sort_by |-> sort_by,
                order_by |-> order_by, file_type |-> file_type], aggregated)

(* ------------------- the feedback migration methods ------------------- *)
\* A write is handed to the store when the driver's method is called; the
\* store applies it later, whether or not the caller awaits it. A call that
\* is awaited is applied before the caller goes on, so only the writes that
\* are not awaited are ever in `pending`. Equal writes of one method count
\* as one: each of them is idempotent.
IdleTask == [method |-> "", status |-> "idle", cursor |-> <<>>]

Write(by, op, key, a, b) == [by |-> by, op |-> op, key |-> key, a |-> a, b |-> b]

Without(doc, fields) == [k \in (DOMAIN doc) \ fields |-> doc[k]]

\* update_many as the store applies it.
ApplyToChatHistory(w) ==
  [i \in 1..Len(chat_history) |->
     CASE w.op = "unset_thumbs" ->
            Without(chat_history[i], {"thumbs_up", "thumbs_down"})
       [] w.op = "set_feedback_id" /\ chat_history[i]._id = w.key ->
            [feedback_id |-> w.a] @@ Without(chat_history[i], {"feedback_id"})
       [] OTHER -> chat_history[i]]

ApplyToFeedback(w) ==
  [i \in 1..Len(feedback) |->
     IF w.op = "set_created_at" /\ feedback[i]._id = w.key
     THEN [feedback[i] EXCEPT !.created_at = w.a, !.timezone = w.b]
     ELSE feedback[i]]

\* The store applies one of the writes it holds, in any order.
StoreApplies(w) ==
  /\ w \in pending
  /\ pending' = pending \ {w}
  /\ chat_history' = ApplyToChatHistory(w)
  /\ feedback' = ApplyToFeedback(w)
  /\ UNCHANGED <<users, reportVars, task, llm>>

\* remove_thumb_properties: update_many is called and not awaited.
RemoveThumbProperties ==
  /\ task.status # "running"
  /\ task' = [method |-> "remove_thumb_properties", status |-> "returned", cursor |-> <<>>]
  /\ pending' = pending \cup {Write("remove_thumb_properties", "unset_thumbs", 0, 0, "")}
  /\ UNCHANGED <<storeVars, reportVars, llm>>

\* The documents each method's find() gives, read when the loop starts.
HasThumb(doc) ==
  \/ HasField(doc, "thumbs_up") /\ doc.thumbs_up = 1
  \/ HasField(doc, "thumbs_down") /\ doc.thumbs_down = 1

Find(method) ==
  CASE method = "transfer_thumbs_to_feedback" -> SelectSeq(chat_history, HasThumb)
    [] method = "update_chat_history_with_feedback_id" -> feedback
    [] method = "update_feedback" ->
         SelectSeq(chat_history, LAMBDA d : HasField(d, "feedback_id"))

LoopMethods ==
  {"transfer_thumbs_to_feedback", "update_chat_history_with_feedback_id", "update_feedback"}

\* A method with a loop is called: its cursor is read. The transfer is
\* explored while the feedback collection stays within MaxFeedback records.
StartLoop(method) ==
  /\ task.status # "running"
  /\ method = "transfer_thumbs_to_feedback" =>
       Len(feedback) + Len(Find(method)) <= MaxFeedback
  /\ task' = [method |-> method, status |-> "running", cursor |-> Find(method)]
  /\ UNCHANGED <<storeVars, reportVars, pending, llm>>

\* transfer_thumbs_to_feedback, one turn of the loop: insert_one is awaited.
NewFeedbackNamedAfterChat(ch) ==
  [_id |-> ch._id, shard_id |-> Len(feedback) + 1, chat_id |-> ch._id,
   thumbs_up |-> ch.thumbs_up, thumbs_down |-> ch.thumbs_down,
   feedback_choices |-> "[]", feedback_details |-> "''",
   created_at |-> ch.created_at, timezone |-> ch.timezone]
NewFeedback(ch) ==
  [_id |-> Len(feedback) + 1, shard_id |-> Len(feedback) + 1, chat_id |-> ch._id,
   thumbs_up |-> ch.thumbs_up, thumbs_down |-> ch.thumbs_down,
   feedback_choices |-> "[]", feedback_details |-> "''",
   created_at |-> ch.created_at, timezone |-> ch.timezone]

TransferStep ==
  /\ task.status = "running"
  /\ task.method = "transfer_thumbs_to_feedback"
  /\ task.cursor # <<>>
  /\ feedback' = Append(feedback, NewFeedback(Head(task.cursor)))
  /\ task' = [task EXCEPT !.cursor = Tail(@)]
  /\ UNCHANGED <<chat_history, users, reportVars, pending, llm>>

\* update_chat_history_with_feedback_id, one turn: update_many, not awaited.
LinkStep ==
  /\ task.status = "running"
  /\ task.method = "update_chat_history_with_feedback_id"
  /\ task.cursor # <<>>
  /\ LET fb == Head(task.cursor)
     IN  pending' = pending \cup
           {Write(task.method, "set_feedback_id", fb.chat_id, fb._id, "")}
  /\ task' = [task EXCEPT !.cursor = Tail(@)]
  /\ UNCHANGED <<storeVars, reportVars, llm>>

\* update_feedback, one turn: update_many, not awaited.
UpdateFeedbackStep ==
  /\ task.status = "running"
  /\ task.method = "update_feedback"
  /\ task.cursor # <<>>
  /\ LET ch == Head(task.cursor)
     IN  pending' = pending \cup
           {Write(task.method, "set_created_at", ch.feedback_id, ch.created_at, ch.timezone)}
  /\ task' = [task EXCEPT !.cursor = Tail(@)]
  /\ UNCHANGED <<storeVars, reportVars, llm>>

\* The cursor is exhausted: the method returns.
ReturnFromLoop ==
  /\ task.status = "running"
  /\ task.cursor = <<>>
  /\ task' = [task EXCEPT !.status = "returned"]
  /\ UNCHANGED <<storeVars, reportVars, pending, llm>>

(* ------------------ the language-model wrappers ----------------------- *)
GPT_4_MINI_MAX_INPUT_TOKENS == 128000
EMBEDDING_ADA_002_MAX_INPUT_TOKENS == 8191
StopAfterAttempt == 6
\* "32000 - 1500": the ceiling of outline_webpage, scrape_webpage and
\* create_webpage_title.
WebpageTokenCeiling == 32000 - 1500

Wrappers ==
  {"generate_embeddings", "generate_questions", "generate_labels",
   "generate_transcript_summary", "generate_pdf_summary", "outline_webpage",
   "scrape_webpage", "create_webpage_title"}

IdleLlm ==
  [wrapper |-> "", tokens |-> 0, attempt |-> 0, provider_calls |-> 0,
   last_call |-> "none", cut |-> FALSE, status |-> "idle", result |-> ""]

\* One run of a wrapper's body on an input of `tokens` tokens, with a
\* provider that answers (provider_ok) or fails: whether the provider is
\* called, and what the body returns or raises.
\*   - the five generate_* wrappers cut a long text and call the provider;
\*   - outline_webpage and scrape_webpage raise ValueError for a long
\*     content, call the provider otherwise, and catch every exception of
\*     both, returning "";
\*   - create_webpage_title raises ValueError for a long content.
BodyWithoutCatch(wrapper, tokens, provider_ok) ==
  IF wrapper \in {"outline_webpage", "scrape_webpage", "create_webpage_title"}
     /\ tokens >= WebpageTokenCeiling
  THEN [called |-> FALSE, cut |-> FALSE, raised |-> "ValueError", result |-> ""]
  ELSE LET cut == \/ /\ wrapper = "generate_embeddings"
                      /\ tokens >= EMBEDDING_ADA_002_MAX_INPUT_TOKENS
                   \/ /\ wrapper \in {"generate_questions", "generate_labels",
                                       "generate_transcript_summary", "generate_pdf_summary"}
                      /\ tokens >= GPT_4_MINI_MAX_INPUT_TOKENS
       IN  IF provider_ok
           THEN [called |-> TRUE, cut |-> cut, raised |-> "", result |-> "text"]
           ELSE [called |-> TRUE, cut |-> cut, raised |-> "OpenAIError", result |-> ""]
BodyLettingErrorsOut(wrapper, tokens, provider_ok) ==
  BodyWithoutCatch(wrapper, tokens, provider_ok)
Body(wrapper, tokens, provider_ok) ==
  LET run == BodyWithoutCatch(wrapper, tokens, provider_ok)
  IN  IF wrapper \in {"outline_webpage", "scrape_webpage"} /\ run.raised # ""
      THEN [called |-> run.called, cut |-> run.cut, raised |-> "", result |-> ""]
      ELSE run

\* A caller calls a wrapper.
CallWrapper(wrapper, tokens) ==
  /\ llm.status # "running"
  /\ llm' = [wrapper |-> wrapper, tokens |-> tokens, attempt |-> 0, provider_calls |-> 0,
             last_call |-> "none", cut |-> FALSE, status |-> "running", result |-> ""]
  /\ UNCHANGED <<storeVars, reportVars, migrationVars>>

\* @retry(wait=wait_random_exponential(min=1, max=20),
\*        stop=stop_after_attempt(6)): one attempt. A body that returns ends
\* the call; a body that raises is run again after the wait, unless this was
\* attempt 6, when RetryError reaches the caller.
Attempt(provider_ok) ==
  /\ llm.status = "running"
  /\ LET run == Body(llm.wrapper, llm.tokens, provider_ok)
         n == llm.attempt + 1
     IN  llm' = [llm EXCEPT
           !.attempt = n,
           !.provider_calls = IF run.called THEN @ + 1 ELSE @,
           !.cut = run.cut,
           !.last_call = IF ~run.called THEN "none"
                         ELSE IF provider_ok THEN "answered" ELSE "failed",
           !.status = IF run.raised = "" THEN "returned"
                      ELSE IF n >= StopAfterAttempt THEN "raised" ELSE "running",
           !.result = IF run.raised = "" THEN run.result
                      ELSE IF n >= StopAfterAttempt THEN "RetryError" ELSE ""]
  /\ UNCHANGED <<storeVars, reportVars, migrationVars>>

(* --------------------------- initial states --------------------------- *)
UserIds == {1, 2}
TheUsers ==
  <<[user_id |-> 1, name |-> "Ann", last_active_at |-> 0],
    [user_id |-> 2, name |-> "Bob", last_active_at |-> 1]>>

Zones == {"UTC", "Europe/Kyiv", "America/Ciudad_Juarez"}
ZoneRank(z) == CASE z = "UTC" -> 0 [] z = "Europe/Kyiv" -> 1 [] OTHER -> 2

NoReport == [outcome |-> "none", rows |-> <<>>, total_count |-> 0]

InitReportVars ==
  /\ call = <<>>
  /\ report = NoReport
  /\ json_file = <<>>
  /\ xlsx_file = <<>>
  /\ task = IdleTask
  /\ pending = {}
  /\ llm = IdleLlm

\* Chat records of the two users, at any instant and in any zone. The report
\* reads the order of the records only for the timezone column: one order of
\* each multiset of records is explored.
DateChoices == UserIds \X Instants \X Zones
DateChoiceRank(c) == (c[1] * (Cardinality(Instants) + 1) + c[2]) * 3 + ZoneRank(c[3])

InitDates ==
  /\ \E pick \in [ChatIds -> DateChoices] :
        /\ \A i \in 1..(MaxChats - 1) : DateChoiceRank(pick[i]) <= DateChoiceRank(pick[i + 1])
        /\ chat_history = [i \in ChatIds |->
              [_id |-> i, user_id |-> pick[i][1], created_at |-> pick[i][2],
               timezone |-> pick[i][3], citations |-> "['a']"]]
  /\ users = TheUsers
  /\ feedback = <<>>
  /\ InitReportVars

StartDates == {<<d, 0>> : d \in Days}
EndDates == {<<d, 1>> : d \in Days}

\* One report per run, of a type that writes no file: the report does not
\* change the store, so a second report would find what the first found.
NextDates ==
  \E s \in StartDates, e \in EndDates :
     /\ call = <<>>
     /\ StrLte(s, e)
     /\ GetUsers(s, e, "user_id", "ASC", "csv")

SpecDates == InitDates /\ [][NextDates]_vars

\* Chat records of the two users and of user 3, who has no user record, on
\* day 0 or on day 1, in UTC, without a feedback_id, with the _id of one of
\* the two feedback records, or with an _id no feedback record has.
TheFeedback ==
  <<[_id |-> 1, chat_id |-> 1, thumbs_up |-> 1, thumbs_down |-> 0,
     created_at |-> 0, timezone |-> "UTC"],
    [_id |-> 2, chat_id |-> 2, thumbs_up |-> 0, thumbs_down |-> 1,
     created_at |-> 0, timezone |-> "UTC"]>>
\* The link of a chat record: 0 for no feedback_id field, else the feedback_id.
DanglingFeedbackId == Len(TheFeedback) + 1
JoinChoices == (UserIds \cup {3}) \X {0, SlotsPerDay} \X (0..DanglingFeedbackId)
JoinChoiceRank(c) == (c[1] * (SlotsPerDay + 1) + c[2]) * (DanglingFeedbackId + 1) + c[3]

JoinDoc(i, c) ==
  LET doc == [_id |-> i, user_id |-> c[1], created_at |-> c[2],
              timezone |-> "UTC", citations |-> "['a']"]
  IN  IF c[3] = 0 THEN doc ELSE doc @@ [feedback_id |-> c[3]]

InitReport ==
  /\ \E pick \in [ChatIds -> JoinChoices] :
        /\ \A i \in 1..(MaxChats - 1) : JoinChoiceRank(pick[i]) <= JoinChoiceRank(pick[i + 1])
        /\ chat_history = [i \in ChatIds |-> JoinDoc(i, pick[i])]
  /\ users = TheUsers
  /\ feedback = TheFeedback
  /\ InitReportVars

\* The report of day 1 and the days after it, as the entry point asks for a
\* quarter: it keeps the records of day 1.
FromDay1 == <<1, 0>>
ToLastDay == <<MaxDay + 1, 1>>

NextReport ==
  \E file_type \in {"json", "xlsx"} :
     GetUsers(FromDay1, ToLastDay, "user_id", "ASC", file_type)

SpecReport == InitReport /\ [][NextReport]_vars

\* Chat records of the two users on day 0 or on day 1, reported for day 0 or
\* for day 1 on, sorted on any field in any direction, into either file.
OutputChoices == UserIds \X {0, SlotsPerDay}
OutputChoiceRank(c) == c[1] * (SlotsPerDay + 1) + c[2]

InitOutput ==
  /\ \E pick \in [ChatIds -> OutputChoices] :
        /\ \A i \in 1..(MaxChats - 1) : OutputChoiceRank(pick[i]) <= OutputChoiceRank(pick[i + 1])
        /\ chat_history = [i \in ChatIds |-> JoinDoc(i, <<pick[i][1], pick[i][2], 0>>)]
  /\ users = TheUsers
  /\ feedback = TheFeedback
  /\ InitReportVars

SortFields == {"user_id", "USER_ID", "total_questions", "no_such_field"}
OrderBys == {"ASC", "asc", "DESC", "desc"}

NextOutput ==
  \E range \in {<<(<<0, 0>>), (<<1, 1>>)>>, <<FromDay1, ToLastDay>>},
     sort_by \in SortFields, order_by \in OrderBys, file_type \in {"json", "xlsx"} :
     GetUsers(range[1], range[2], sort_by, order_by, file_type)

SpecOutput == InitOutput /\ [][NextOutput]_vars

\* get_users on any answer of the store: rows of one to MaxRows dicts over
\* three of the keys, which need not have the same keys.
MaxRows == 2
WriterKeys == {"user_id", "total_questions", "total_visits"}
WriterRows ==
  UNION {[S -> {v}] : S \in (SUBSET WriterKeys) \ {{}}, v \in {1, 2}}
WriterAnswers ==
  UNION {{<<[paginatedResults |-> rows, totalCount |-> CountStage(rows)]>> :
            rows \in [1..n -> WriterRows]} : n \in 1..MaxRows}

InitWriter ==
  /\ chat_history = <<>>
  /\ users = TheUsers
  /\ feedback = <<>>
  /\ InitReportVars

GetUsersAnswered(aggregated) ==
  Finish([start_date |-> FromDay1, end_date |-> ToLastDay, sort_by |-> "user_id",
          order_by |-> "ASC", file_type |-> "xlsx"], aggregated)

NextWriter == \E aggregated \in WriterAnswers : GetUsersAnswered(aggregated)

SpecWriter == InitWriter /\ [][NextWriter]_vars

\* The wrappers, called with short, long and over-long inputs.
TokenCounts ==
  {50, EMBEDDING_ADA_002_MAX_INPUT_TOKENS, WebpageTokenCeiling - 1, WebpageTokenCeiling,
   GPT_4_MINI_MAX_INPUT_TOKENS}

InitLlm ==
  /\ chat_history = <<>>
  /\ users = TheUsers
  /\ feedback = <<>>
  /\ InitReportVars

NextLlm ==
  \/ \E wrapper \in Wrappers, tokens \in TokenCounts : CallWrapper(wrapper, tokens)
  \/ \E provider_ok \in BOOLEAN : Attempt(provider_ok)

SpecLlm == InitLlm /\ [][NextLlm]_vars

\* The migration: chat records with a thumb up, a thumb down or neither, no
\* feedback record yet, and the methods called in any order.
ThumbChoices == {<<1, 0>>, <<0, 1>>, <<0, 0>>}

InitMigration ==
  /\ \E pick \in [1..MaxMigrated -> ThumbChoices] :
        chat_history = [i \in 1..MaxMigrated |->
          [_id |-> i, user_id |-> 1, created_at |-> i,
           timezone |-> IF i % 2 = 1 THEN "UTC" ELSE "Europe/Kyiv",
           citations |-> "['a']", thumbs_up |-> pick[i][1], thumbs_down |-> pick[i][2]]]
  /\ users = TheUsers
  /\ feedback = <<>>
  /\ InitReportVars

NextMigration ==
  \/ RemoveThumbProperties
  \/ \E method \in LoopMethods : StartLoop(method)
  \/ TransferStep
  \/ LinkStep
  \/ UpdateFeedbackStep
  \/ ReturnFromLoop
  \/ \E w \in pending : StoreApplies(w)

SpecMigration == InitMigration /\ [][NextMigration]_vars

\* Chat records of the two users on day 0 or on day 1, in UTC, whose
\* citations field holds an empty list, an empty string, a list of one
\* citation or null, or is missing.
CitationValues == {"[]", "''", "['a']", "null"}
NoCitationsField == "missing"
CitationChoices == UserIds \X {0, SlotsPerDay} \X (CitationValues \cup {NoCitationsField})
CitationRank(v) ==
  CASE v = "[]" -> 0 [] v = "''" -> 1 [] v = "['a']" -> 2 [] v = "null" -> 3 [] OTHER -> 4
CitationChoiceRank(c) == (c[1] * (SlotsPerDay + 1) + c[2]) * 5 + CitationRank(c[3])

CitationDoc(i, c) ==
  LET doc == [_id |-> i, user_id |-> c[1], created_at |-> c[2], timezone |-> "UTC"]
  IN  IF c[3] = NoCitationsField THEN doc ELSE doc @@ [citations |-> c[3]]

InitCitations ==
  /\ \E pick \in [ChatIds -> CitationChoices] :
        /\ \A i \in 1..(MaxChats - 1) :
              CitationChoiceRank(pick[i]) <= CitationChoiceRank(pick[i + 1])
        /\ chat_history = [i \in ChatIds |-> CitationDoc(i, pick[i])]
  /\ users = TheUsers
  /\ feedback = TheFeedback
  /\ InitReportVars

SpecCitations == InitCitations /\ [][NextReport]_vars

\* The migration as it is meant to be run: from an empty feedback
\* collection, transfer_thumbs_to_feedback once, and once it has returned
\* update_chat_history_with_feedback_id once.
RunTransfer ==
  /\ task = IdleTask
  /\ StartLoop("transfer_thumbs_to_feedback")

RunLink ==
  /\ task.method = "transfer_thumbs_to_feedback"
  /\ task.status = "returned"
  /\ StartLoop("update_chat_history_with_feedback_id")

NextTransferThenLink ==
  \/ RunTransfer
  \/ TransferStep
  \/ RunLink
  \/ LinkStep
  \/ ReturnFromLoop
  \/ \E w \in pending : StoreApplies(w)

SpecTransferThenLink == InitMigration /\ [][NextTransferThenLink]_vars

(* ------------------- properties of the user report -------------------- *)
TheCall == call[1]
Called == call # <<>>

\* The day of a chat record's timestamp in the record's own zone.
LocalDay(doc) == (doc.created_at + UtcOffset(TimezoneSwitch(doc.timezone))) \div SlotsPerDay

\* The chat records the date filter of the last call keeps.
Kept(doc) ==
  LET dts == format_datetime(TheCall.start_date, TheCall.end_date)
  IN  MatchDateRange(AddCreatedAtLocalized(<<doc>>), dts[1], dts[2]) # <<>>

UsersOnRecord == {users[i].user_id : i \in 1..Len(users)}
ChatsOf(u) == {i \in 1..Len(chat_history) : chat_history[i].user_id = u}
KeptChatsOf(u) == {i \in ChatsOf(u) : Kept(chat_history[i])}
RowsOf(u) == {n \in 1..Len(report.rows) : report.rows[n].user_id = u}

RECURSIVE SumOver(_, _)
SumOver(S, f) ==
  IF S = {} THEN 0
  ELSE LET x == CHOOSE y \in S : TRUE IN f[x] + SumOver(S \ {x}, f)

\* C1: after get_users, the records counted for a user are the user's chat
\* records whose localized timestamp is on a date from the start date
\* through the end date, the end date included, and no others.
C1_CountsDatesThroughEndDate ==
  Called =>
    \A u \in UsersOnRecord :
      SumOver(RowsOf(u), [n \in RowsOf(u) |-> report.rows[n].total_questions])
        = Cardinality({i \in ChatsOf(u) :
            /\ LocalDay(chat_history[i]) >= StrptimeDate(TheCall.start_date)
            /\ LocalDay(chat_history[i]) <= StrptimeDate(TheCall.end_date)})

\* C10: in every row, total_visits is the number of distinct calendar dates
\* of the created_at values of the user's chat records that the date filter
\* kept, and it is not negative.
C10_TotalVisitsCountsDistinctDates ==
  Called =>
    \A n \in 1..Len(report.rows) :
      LET u == report.rows[n].user_id
      IN  /\ report.rows[n].total_visits =
               Cardinality({chat_history[i].created_at \div SlotsPerDay : i \in KeptChatsOf(u)})
          /\ report.rows[n].total_visits >= 0

\* A user with two kept records on one date and a third on another: 2 visits.
C10_Witness ==
  /\ Called
  /\ \E n \in 1..Len(report.rows) :
        LET K == KeptChatsOf(report.rows[n].user_id)
        IN  /\ Cardinality(K) = 3
            /\ \E i, j \in K : /\ i # j
                                /\ chat_history[i].created_at # chat_history[j].created_at
                                /\ chat_history[i].created_at \div SlotsPerDay
                                     = chat_history[j].created_at \div SlotsPerDay
            /\ \E i \in K : LocalDay(chat_history[i]) # chat_history[i].created_at \div SlotsPerDay
            /\ report.rows[n].total_visits = 2

\* No chat record passes the date filter and the join with the users.
NothingPasses == \A u \in UsersOnRecord : KeptChatsOf(u) = {}

\* C5: when no chat record passes the filter and the join, get_users returns
\* no rows and total_count 0, for json and for xlsx, and raises nothing.
C5_EmptyResultIsReturned ==
  (Called /\ NothingPasses) =>
    report = [outcome |-> "returned_empty", rows |-> <<>>, total_count |-> 0]

C5_Witness ==
  /\ Called
  /\ TheCall.file_type = "xlsx"
  /\ NothingPasses
  /\ \E i \in 1..Len(chat_history) : Kept(chat_history[i])
  /\ report.outcome = "returned_empty"

\* C6: total_count is the number of users on record with a kept chat record,
\* and the number of rows is total_count.
C6_TotalCountIsGroupCount ==
  Called =>
    /\ report.total_count = Cardinality({u \in UsersOnRecord : KeptChatsOf(u) # {}})
    /\ Len(report.rows) = report.total_count

C6_Witness ==
  /\ Called
  /\ report.total_count = 2
  /\ Len(report.rows) = 2
  /\ \E i \in 1..Len(chat_history) :
        Kept(chat_history[i]) /\ chat_history[i].user_id \notin UsersOnRecord

\* The thumbs a chat record brings: those of the feedback record its
\* feedback_id names, 0 without a feedback_id or without such a record.
LinkedThumbs(doc, field) ==
  LET linked == {k \in 1..Len(feedback) :
                   HasField(doc, "feedback_id") /\ feedback[k]._id = doc.feedback_id}
  IN  SumOver(linked, [k \in linked |-> feedback[k][field]])

\* C9: in every row, total_thumbs_up and total_thumbs_down are the sums over
\* the feedback records linked from the user's kept chat records; a record
\* without one counts in total_questions and adds 0 to both.
C9_ThumbsSumOverLinkedFeedback ==
  Called =>
    /\ report.outcome = "returned" \/ report.outcome = "returned_empty"
    /\ \A n \in 1..Len(report.rows) :
         LET K == KeptChatsOf(report.rows[n].user_id)
         IN  /\ report.rows[n].total_questions = Cardinality(K)
             /\ report.rows[n].total_thumbs_up =
                  SumOver(K, [i \in K |-> LinkedThumbs(chat_history[i], "thumbs_up")])
             /\ report.rows[n].total_thumbs_down =
                  SumOver(K, [i \in K |-> LinkedThumbs(chat_history[i], "thumbs_down")])

\* A user with a record without feedback_id, a record whose feedback_id
\* matches nothing and a record with a thumbs-up feedback.
C9_Witness ==
  /\ Called
  /\ \E n \in 1..Len(report.rows) :
        LET K == KeptChatsOf(report.rows[n].user_id)
        IN  /\ \E i \in K : ~HasField(chat_history[i], "feedback_id")
            /\ \E i \in K : /\ HasField(chat_history[i], "feedback_id")
                             /\ chat_history[i].feedback_id = DanglingFeedbackId
            /\ \E i \in K : /\ HasField(chat_history[i], "feedback_id")
                             /\ chat_history[i].feedback_id = 1
            /\ report.rows[n].total_questions = 3
            /\ report.rows[n].total_thumbs_up = 1
            /\ report.rows[n].total_thumbs_down = 0

\* C4: the rows are in non-decreasing order of the requested field when the
\* caller asks for ascending order ("ASC", or "asc" as the entry point
\* passes it), in non-increasing order when it asks for descending order.
RequestedKey == Lower(TheCall.sort_by)
C4_RowsInRequestedOrder ==
  (Called /\ RequestedKey \in Range(ProjectedKeys)) =>
    \A n \in 1..(Len(report.rows) - 1) :
      /\ TheCall.order_by \in {"ASC", "asc"} =>
           report.rows[n][RequestedKey] <= report.rows[n + 1][RequestedKey]
      /\ TheCall.order_by \in {"DESC", "desc"} =>
           report.rows[n][RequestedKey] >= report.rows[n + 1][RequestedKey]

\* The rows a file holds: none for a file that does not exist.
JsonRows == IF json_file = <<>> THEN <<>> ELSE json_file[1]
XlsxRows == IF xlsx_file = <<>> THEN <<>> ELSE Tail(xlsx_file[1])
ValuesOf(rows) ==
  [n \in 1..Len(rows) |-> [c \in 1..Len(ProjectedKeys) |-> rows[n][ProjectedKeys[c]]]]

\* C7: after every get_users call that ends without an error, the file of
\* the requested format holds the rows of that call and no others, also when
\* the call has no rows.
C7_FileHoldsRowsOfLastCall ==
  (Called /\ report.outcome \in {"returned", "returned_empty"}) =>
    /\ TheCall.file_type = "json" => JsonRows = report.rows
    /\ TheCall.file_type = "xlsx" => XlsxRows = ValuesOf(report.rows)

\* The rows of a call do not all have the keys of the first row.
KeySetsDiffer(rows) == \E i \in 1..Len(rows) : DOMAIN rows[i] # DOMAIN rows[1]

\* C8: a get_users call that writes the spreadsheet from rows whose key sets
\* differ from that of the first row fails, and leaves the spreadsheet file
\* as it was.
C8_DifferingKeysFailBeforeWriting ==
  [][(call'[1].file_type = "xlsx" /\ KeySetsDiffer(report'.rows))
       => (report'.outcome = "KeyError" /\ xlsx_file' = xlsx_file)]_vars

\* The chat records whose citations field is exactly [] or exactly "".
EmptyCitations(doc) == HasField(doc, "citations") /\ doc.citations \in {"[]", "''"}

\* C11: in every row, total_answers_no_citations is the number of the user's
\* chat records that the date filter kept and whose citations field is
\* exactly an empty list or exactly an empty string; a record whose field is
\* missing, null or not empty adds 0.
C11_CountsEmptyCitationsOnly ==
  Called =>
    \A n \in 1..Len(report.rows) :
      report.rows[n].total_answers_no_citations =
        Cardinality({i \in KeptChatsOf(report.rows[n].user_id) :
                       EmptyCitations(chat_history[i])})

\* A user with three kept records: one without the field, one whose field
\* is null, and one whose field is empty, the only one counted.
C11_Witness ==
  /\ Called
  /\ \E n \in 1..Len(report.rows) :
        LET K == KeptChatsOf(report.rows[n].user_id)
        IN  /\ \E i \in K : ~HasField(chat_history[i], "citations")
            /\ \E i \in K : /\ HasField(chat_history[i], "citations")
                             /\ chat_history[i].citations = "null"
            /\ \E i \in K : EmptyCitations(chat_history[i])
            /\ report.rows[n].total_questions = 3
            /\ report.rows[n].total_answers_no_citations = 1

\* C14: a get_users call with the arguments of the call before it, over the
\* same chat, user and feedback data, yields the rows of the call before it
\* in the same order, whatever the sort field.
C14_SameCallSameRows ==
  [][(/\ Called
      /\ call' = call
      /\ chat_history' = chat_history
      /\ users' = users
      /\ feedback' = feedback) => report'.rows = report.rows]_vars

(* --------------- properties of the language-model wrappers ------------ *)
\* C2: a wrapper makes at most 6 attempts; a call ends after an attempt
\* whose provider call failed only when that was attempt 6, and then with
\* the error raised to the caller; after an answered provider call the call
\* has returned.
C2_FailedCallsRetriedUpToSix ==
  /\ llm.attempt <= StopAfterAttempt
  /\ (llm.status \in {"returned", "raised"} /\ llm.last_call = "failed") =>
       (llm.attempt = StopAfterAttempt /\ llm.status = "raised")
  /\ llm.last_call = "answered" => llm.status = "returned"

\* The last call is outline_webpage or scrape_webpage on an input above the
\* ceiling.
OverCeiling ==
  /\ llm.wrapper \in {"outline_webpage", "scrape_webpage"}
  /\ llm.tokens > WebpageTokenCeiling

WritesOf(method) == {w \in pending : w.by = method}

\* C3: a method has at most one store operation outstanding at any time, and
\* when it has returned every write it issued has been applied.
C3_OneOperationAtATime ==
  /\ \A w \in pending : Cardinality(WritesOf(w.by)) <= 1
  /\ task.status = "returned" => WritesOf(task.method) = {}

\* The feedback records linked back from a chat record: those whose chat_id
\* is the record's _id and whose _id is the record's feedback_id.
LinkedBack(ch) ==
  {k \in 1..Len(feedback) :
     /\ feedback[k].chat_id = ch._id
     /\ HasField(ch, "feedback_id")
     /\ feedback[k]._id = ch.feedback_id}

FeedbackOf(ch) == {k \in 1..Len(feedback) : feedback[k].chat_id = ch._id}

BothReturned ==
  /\ task.method = "update_chat_history_with_feedback_id"
  /\ task.status = "returned"

\* The feedback record carries what the chat record holds.
Carries(fb, ch) ==
  /\ fb.thumbs_up = ch.thumbs_up
  /\ fb.thumbs_down = ch.thumbs_down
  /\ fb.created_at = ch.created_at
  /\ fb.timezone = ch.timezone

\* C15: once both methods have returned, every chat record with a thumb has
\* exactly one feedback record, which carries its thumbs, created_at and
\* timezone and which its feedback_id references; a chat record with neither
\* thumb has no feedback record and no feedback_id.
C15_MigratedOnReturn ==
  BothReturned =>
    \A i \in 1..Len(chat_history) :
      LET ch == chat_history[i]
      IN  IF HasThumb(ch)
          THEN /\ Cardinality(FeedbackOf(ch)) = 1
               /\ \A k \in FeedbackOf(ch) :
                     /\ Carries(feedback[k], ch)
                     /\ HasField(ch, "feedback_id")
                     /\ ch.feedback_id = feedback[k]._id
          ELSE /\ FeedbackOf(ch) = {}
               /\ ~HasField(ch, "feedback_id")

=============================================================================
